---- MODULE Spec2Model ----
(***************************************************************************)
(* The concurrent Azure token cache of                                     *)
(* pkg/tsdb/azuremonitor/tokenprovider/token_cache.go as a state machine.  *)
(*                                                                         *)
(* Every caller is one goroutine executing one call of                     *)
(* tokenCacheImpl.GetAccessToken.  The sync.Map registries, the credential *)
(* mutex, the condition variable of a scopes entry and the clock are       *)
(* state; the credential (Init, GetAccessToken) is the environment and     *)
(* answers nondeterministically.                                           *)
(*                                                                         *)
(* A Go string is modelled as the sequence of its bytes, so that           *)
(* sort.Strings and strings.Join are computed as the library computes      *)
(* them.  Time is counted in minutes.                                      *)
(*                                                                         *)
(* Granularity.  A critical section under c.cond.L (refreshing and         *)
(* accessToken are read and written nowhere else) is one step.             *)
(* c.credMutex.Lock() with the check of credInit under the mutex is one    *)
(* step, the store of credInit at the return of Init another, and the      *)
(* deferred Unlock a third.  The credential's Init and GetAccessToken take *)
(* time: their invocation and their return are separate steps, Init        *)
(* holding credMutex and GetAccessToken holding no lock in between.  The   *)
(* lock-free reads are explained where they are defined.                   *)
(***************************************************************************)
EXTENDS Integers, Sequences, FiniteSets, TLC

\* ---------------------------------------------------------------- bounds

\* Number of goroutines calling GetAccessToken (one call each).
NumCallers == 2

\* The clock runs from 0 to MaxTime minutes.
MaxTime == 1

\* The longest scope list on which the key normalization is compared.
MaxScopes == 2

\* ------------------------------------------------------- program constants

\* token_cache.go:122, 2*time.Minute, in minutes.
Buffer == 2

\* ------------------------------------------------------------ Go strings

\* The scope strings used as inputs: "a", "b" and "a b" as byte sequences.
ScopeA == <<97>>
ScopeB == <<98>>
ScopeAB == <<97, 32, 98>>

\* The separator of strings.Join(scopes, " ") as a byte sequence.
Separator == <<32>>

Min(a, b) == IF a < b THEN a ELSE b

\* Go's s < t on strings: bytewise lexicographic order.
StrLess(s, t) ==
    \/ \E i \in 1..Min(Len(s), Len(t)) :
          /\ s[i] < t[i]
          /\ \A j \in 1..(i - 1) : s[j] = t[j]
    \/ /\ Len(s) < Len(t)
       /\ \A j \in 1..Len(s) : s[j] = t[j]

\* Insertion of the string x into the sorted list arr.
RECURSIVE Insert(_, _)
Insert(x, arr) ==
    IF arr = <<>> THEN <<x>>
    ELSE IF StrLess(arr[1], x) THEN <<arr[1]>> \o Insert(x, Tail(arr))
    ELSE <<x>> \o arr

\* sort.Strings(arr): the list in increasing order.
RECURSIVE SortStrings(_)
SortStrings(arr) ==
    IF arr = <<>> THEN <<>> ELSE Insert(arr[1], SortStrings(Tail(arr)))

\* strings.Join(elems, sep).
RECURSIVE Join(_, _)
Join(elems, sep) ==
    IF elems = <<>> THEN <<>>
    ELSE IF Len(elems) = 1 THEN elems[1]
    ELSE elems[1] \o sep \o Join(Tail(elems), sep)

\* A mutant of getKeyForScopes: the list is sorted in place, without the copy.
getKeyForScopesInPlace(scopes) ==
    IF Len(scopes) > 1
    THEN [key |-> Join(SortStrings(scopes), Separator), arg |-> SortStrings(scopes)]
    ELSE [key |-> Join(scopes, Separator), arg |-> scopes]

\* A mutant of getKeyForScopes: the key is the first of the sorted scopes.
getKeyForScopesFirst(scopes) ==
    [key |-> IF scopes = <<>> THEN <<>> ELSE SortStrings(scopes)[1], arg |-> scopes]

\* A mutant of getKeyForScopes: one key, hence one entry, for all scope lists.
getKeyForScopesShared(scopes) == [key |-> <<>>, arg |-> scopes]

\* A mutant of getKeyForScopes: the list is joined as given, unsorted.
getKeyForScopesUnsorted(scopes) ==
    [key |-> Join(scopes, Separator), arg |-> scopes]

\* getKeyForScopes(scopes): key is the returned string; arg is the caller's
\* slice after the call (the sort works on a copy, so it is the slice as given).
getKeyForScopes(scopes) ==
    IF Len(scopes) > 1
    THEN [key |-> Join(SortStrings(scopes), Separator), arg |-> scopes]
    ELSE [key |-> Join(scopes, Separator), arg |-> scopes]

\* --------------------------------------------------------------- sync.Map

\* A sync.Map is a function whose domain is the set of keys stored.
EmptyMap == <<>>

\* m.Load(key): the value and whether the key is present.
Load(m, key) ==
    IF key \in DOMAIN m THEN [value |-> m[key], ok |-> TRUE]
    ELSE [value |-> 0, ok |-> FALSE]

\* A mutant of LoadOrStore: the new value always replaces the stored one.
LoadOrStoreOverwrite(m, key, value) ==
    [map |-> [k \in (DOMAIN m) \cup {key} |-> IF k = key THEN value ELSE m[k]],
     actual |-> value]

\* m.LoadOrStore(key, value): the existing value if present, else value is
\* stored; map is the map afterwards, actual the value returned.
LoadOrStore(m, key, value) ==
    IF key \in DOMAIN m THEN [map |-> m, actual |-> m[key]]
    ELSE [map |-> [k \in (DOMAIN m) \cup {key} |-> IF k = key THEN value ELSE m[k]],
          actual |-> value]

\* ------------------------------------------------------------------ state

\* The goroutines; caller p's call allocates the objects numbered p.
Procs == 1..NumCallers

\* No object (a nil pointer, an absent map value).
NoEntry == 0

\* A nil *AccessToken.
NilToken == [Token |-> 0, ExpiresOn |-> 0]

\* The readings of the clock.
Times == 0..MaxTime

\* The ExpiresOn of the tokens the credential may issue: from the buffer at
\* time 0 (stale on arrival, and one minute short of the buffer at time 1) to
\* one minute past the buffer at the last reading.
Expiries == Buffer..(Buffer + MaxTime + 1)

\* credentialCacheEntry as allocated by new: credInit 0, mutex free, empty map.
NewCredentialCacheEntry(credential) ==
    [credential |-> credential, credInit |-> 0, credMutex |-> 0, cache |-> EmptyMap]

\* scopesCacheEntry as allocated by new: lock free, not refreshing, no token.
NewScopesCacheEntry(credential, scopes) ==
    [credential |-> credential, scopes |-> scopes, L |-> 0,
     refreshing |-> FALSE, accessToken |-> NilToken]

\* The frame of a goroutine that has not called GetAccessToken yet.
IdleCaller ==
    [pc |-> "idle", credential |-> "", scopes |-> <<>>, given |-> <<>>,
     centry |-> NoEntry, sentry |-> NoEntry,
     shouldRefresh |-> FALSE, accessToken |-> NilToken,
     init |-> "none", acquire |-> "none", waited |-> FALSE, cold |-> FALSE,
     cancelled |-> FALSE,
     result |-> [kind |-> "none", token |-> 0]]

VARIABLES
    now,            \* the latest reading of time.Now(), in minutes
    inputs,         \* what the environment may supply: the credentials and scope
                    \* lists passed, the clock readings, the expiries issued
    issued,         \* number of tokens the credentials have issued so far
    cache,          \* tokenCacheImpl.cache: credential key -> credentialCacheEntry
    credEntries,    \* the credentialCacheEntry objects, by allocating caller
    scopesEntries,  \* the scopesCacheEntry objects, by allocating caller
    callers         \* each goroutine's position, arguments, locals and result

vars == <<now, inputs, issued, cache, credEntries, scopesEntries, callers>>

\* The state after NewConcurrentTokenCache(), before any call.
InitCache ==
    /\ now = 0
    /\ issued = 0
    /\ cache = EmptyMap
    /\ credEntries = [e \in Procs |-> NewCredentialCacheEntry("")]
    /\ scopesEntries = [e \in Procs |-> NewScopesCacheEntry("", <<>>)]
    /\ callers = [p \in Procs |-> IdleCaller]

\* One credential, one scope: every caller contends for the same entry, at
\* every clock reading and with every expiry.
Init ==
    /\ InitCache
    /\ inputs = [credentials |-> {"azr1"}, scopes |-> {<<ScopeA>>},
                 times |-> Times, expiries |-> Expiries]

\* Two credentials with different cache keys, one scope; the clock stands at 0
\* and every token issued is fresh.
InitKeys ==
    /\ InitCache
    /\ inputs = [credentials |-> {"azr1", "azr2"}, scopes |-> {<<ScopeA>>},
                 times |-> {0}, expiries |-> {Buffer + 1}]

\* One credential asked for the scopes "a" and "b" in either order; the clock
\* stands at 0 and every token issued is fresh.
InitScopes ==
    /\ InitCache
    /\ inputs = [credentials |-> {"azr1"},
                 scopes |-> {<<ScopeA, ScopeB>>, <<ScopeB, ScopeA>>},
                 times |-> {0}, expiries |-> {Buffer + 1}]

\* One credential, one scope, the clock standing at 0; a token issued is either
\* stale on arrival (it expires exactly at the buffer) or fresh.
InitStale ==
    /\ InitCache
    /\ inputs = [credentials |-> {"azr1"}, scopes |-> {<<ScopeA>>},
                 times |-> {0}, expiries |-> {Buffer, Buffer + 1}]

\* One credential asked for the scope "a" and for the scope "b": two scopes
\* entries; the clock stands at 0 and a token issued is either stale on
\* arrival or fresh.
InitPairs ==
    /\ InitCache
    /\ inputs = [credentials |-> {"azr1"}, scopes |-> {<<ScopeA>>, <<ScopeB>>},
                 times |-> {0}, expiries |-> {Buffer, Buffer + 1}]

\* One credential asked for the single scope "a b", for the two scopes "a"
\* and "b", and for the scope "b" alone; the clock stands at 0 and every token
\* issued is fresh.
InitMerge ==
    /\ InitCache
    /\ inputs = [credentials |-> {"azr1"},
                 scopes |-> {<<ScopeAB>>, <<ScopeA, ScopeB>>, <<ScopeB>>},
                 times |-> {0}, expiries |-> {Buffer + 1}]

\* ---------------------------------------------------------------- helpers

\* A mutant of IsFresh: a token expiring exactly at the buffer counts as fresh.
IsFreshInclusive(accessToken, t) ==
    accessToken # NilToken /\ accessToken.ExpiresOn >= t + Buffer

\* A mutant of IsFresh: a token must outlive the buffer by a further minute.
IsFreshLate(accessToken, t) ==
    accessToken # NilToken /\ accessToken.ExpiresOn > t + Buffer + 1

\* token_cache.go:122: the cached token is present and expires after now + 2 min.
IsFresh(accessToken, t) ==
    accessToken # NilToken /\ accessToken.ExpiresOn > t + Buffer

\* Caller p moves to pc with the frame fields of changes replaced.
Goto(p, label, changes) ==
    callers' = [callers EXCEPT ![p] =
        [f \in DOMAIN callers[p] |->
            IF f = "pc" THEN label
            ELSE IF f \in DOMAIN changes THEN changes[f]
            ELSE callers[p][f]]]

\* The callers blocked in c.cond.Wait() of scopes entry e.
Waiters(e) == {q \in Procs : callers[q].pc = "condWait" /\ callers[q].sentry = e}

\* ------------------------------------------------------ the lock-free reads
\* The three reads outside any lock (the two sync.Map Loads and the atomic load
\* of credInit) observe registries that only grow and a flag that only goes
\* from 0 to 1.  A read that finds the entry, or the flag set, finds the same
\* at any later moment, so it is taken together with the read that follows it:
\* a caller's step is a run of such reads up to the first one that finds
\* nothing or is the last.  A read is never taken together with a step before
\* it: after a write or an Unlock of its own the caller reads in a step of its
\* own, which the others may precede.  The frame f is a caller's frame; the
\* result is the frame where the caller next has to interleave with the others.

\* credentialCacheEntry.getEntryFor up to c.cache.Load(key), token_cache.go:98-104.
ScopesLoadFrom(f, entries) ==
    LET k == getKeyForScopes(f.scopes)
        found == Load(entries[f.centry].cache, k.key)
    IN  IF ~found.ok
        THEN [f EXCEPT !.pc = "scopesLoadOrStore", !.scopes = k.arg]
        ELSE [f EXCEPT !.pc = "loop", !.scopes = k.arg, !.sentry = found.value]

\* A mutant of EnsureInitializedFrom: the caller goes on to the scopes store
\* whether or not the credential is initialized.
EnsureInitializedSkipped(f, entries) == ScopesLoadFrom(f, entries)

\* ensureInitialized's fast path, atomic.LoadUint32(&c.credInit) == 0
\* (token_cache.go:80), and on to getEntryFor(scopes) once initialized.
EnsureInitializedFrom(f, entries) ==
    IF entries[f.centry].credInit = 0
    THEN [f EXCEPT !.pc = "credMutexLock"]
    ELSE ScopesLoadFrom(f, entries)

\* tokenCacheImpl.getEntryFor up to c.cache.Load(key), token_cache.go:55-61,
\* and on to ensureInitialized when the entry is there.
CredLoadFrom(f, credCache, entries) ==
    LET found == Load(credCache, f.credential)
    IN  IF ~found.ok
        THEN [f EXCEPT !.pc = "credLoadOrStore"]
        ELSE EnsureInitializedFrom([f EXCEPT !.centry = found.value], entries)

\* ---------------------------------------------- tokenCacheImpl.GetAccessToken

\* Callers start in order of their number (they are interchangeable).
MayStart(p) == \A q \in Procs : q < p => callers[q].pc # "idle"

\* The scopes entry registered for (credential, scopes), NoEntry if none is.
EntryFor(credential, scopes) ==
    LET c == Load(cache, credential)
    IN  IF ~c.ok THEN NoEntry
        ELSE Load(credEntries[c.value].cache, getKeyForScopes(scopes).key).value

\* No token is cached for (credential, scopes).
NoCachedToken(credential, scopes) ==
    \/ EntryFor(credential, scopes) = NoEntry
    \/ scopesEntries[EntryFor(credential, scopes)].accessToken = NilToken

\* GetAccessToken(ctx, credential, scopes): the call starts with the Load of
\* tokenCacheImpl.getEntryFor.  The frame records the list as given and
\* whether the call began while no token was cached for it (cold).
GetAccessToken(p, credential, scopes) ==
    /\ callers[p].pc = "idle"
    /\ MayStart(p)
    /\ callers' = [callers EXCEPT ![p] =
           CredLoadFrom([callers[p] EXCEPT !.credential = credential,
                                           !.scopes = scopes, !.given = scopes,
                                           !.cold = NoCachedToken(credential, scopes)],
                        cache, credEntries)]
    /\ UNCHANGED <<now, inputs, issued, cache, credEntries, scopesEntries>>

\* tokenCacheImpl.getEntryFor, c.cache.LoadOrStore(key, &credentialCacheEntry{...});
\* the caller goes on to ensureInitialized.
CredLoadOrStore(p) ==
    /\ callers[p].pc = "credLoadOrStore"
    /\ LET stored == LoadOrStore(cache, callers[p].credential, p)
       IN  /\ cache' = stored.map
           /\ credEntries' = [credEntries EXCEPT
                  ![p] = NewCredentialCacheEntry(callers[p].credential)]
           /\ Goto(p, "ensureInitialized", [centry |-> stored.actual])
    /\ UNCHANGED <<now, inputs, issued, scopesEntries>>

\* ------------------------------------------ credentialCacheEntry.ensureInitialized

\* A mutant of NeedsInit: the check under the mutex is dropped.
NeedsInitUnchecked(credInit) == TRUE

\* token_cache.go:84, the check repeated under credMutex.
NeedsInit(credInit) == credInit = 0

\* A mutant of InitFlagAfter: the flag is set whether or not Init failed.
InitFlagAfterAlways(ok) == 1

\* token_cache.go:86-91, credInit after Init returned: set only on success.
InitFlagAfter(ok) == IF ok THEN 1 ELSE 0

\* The atomic load of credInit by a caller coming from its LoadOrStore: on 0
\* it goes for the mutex, on 1 it goes on to getEntryFor(scopes).
EnsureInitialized(p) ==
    /\ callers[p].pc = "ensureInitialized"
    /\ callers' = [callers EXCEPT ![p] = EnsureInitializedFrom(callers[p], credEntries)]
    /\ UNCHANGED <<now, inputs, issued, cache, credEntries, scopesEntries>>

\* c.credMutex.Lock() and the check repeated under the mutex: either
\* c.credential.Init() is invoked, or the function returns nil; the mutex is
\* held either way until the deferred Unlock.
CredMutexLock(p) ==
    /\ callers[p].pc = "credMutexLock"
    /\ credEntries[callers[p].centry].credMutex = 0
    /\ credEntries' = [credEntries EXCEPT ![callers[p].centry].credMutex = p]
    /\ IF NeedsInit(credEntries[callers[p].centry].credInit)
       THEN Goto(p, "Init", [init |-> "running"])
       ELSE Goto(p, "credMutexUnlock", << >>)
    /\ UNCHANGED <<now, inputs, issued, cache, scopesEntries>>

\* c.credential.Init() returns: on success credInit is stored
\* (token_cache.go:91), on error it is left alone; the mutex is still held.
InitReturn(p, ok) ==
    /\ callers[p].pc = "Init"
    /\ credEntries' = [credEntries EXCEPT
           ![callers[p].centry].credInit = IF InitFlagAfter(ok) = 1 THEN 1 ELSE @]
    /\ Goto(p, "credMutexUnlock", [init |-> IF ok THEN "done" ELSE "error"])
    /\ UNCHANGED <<now, inputs, issued, cache, scopesEntries>>

\* The deferred c.credMutex.Unlock() (token_cache.go:82) as ensureInitialized
\* returns: with the error of Init the call returns it (72-73), otherwise the
\* caller goes on to getEntryFor(scopes).
CredMutexUnlock(p) ==
    /\ callers[p].pc = "credMutexUnlock"
    /\ credEntries' = [credEntries EXCEPT ![callers[p].centry].credMutex = 0]
    /\ IF callers[p].init = "error"
       THEN Goto(p, "done", [result |-> [kind |-> "initError", token |-> 0]])
       ELSE Goto(p, "scopesLoad", << >>)
    /\ UNCHANGED <<now, inputs, issued, cache, scopesEntries>>

\* ------------------------------------------------ credentialCacheEntry.getEntryFor

\* key := getKeyForScopes(scopes); c.cache.Load(key), by a caller coming from
\* the mutex.
ScopesLoad(p) ==
    /\ callers[p].pc = "scopesLoad"
    /\ callers' = [callers EXCEPT ![p] = ScopesLoadFrom(callers[p], credEntries)]
    /\ UNCHANGED <<now, inputs, issued, cache, credEntries, scopesEntries>>

\* c.cache.LoadOrStore(key, &scopesCacheEntry{...}).
ScopesLoadOrStore(p) ==
    /\ callers[p].pc = "scopesLoadOrStore"
    /\ LET k == getKeyForScopes(callers[p].scopes)
           stored == LoadOrStore(credEntries[callers[p].centry].cache, k.key, p)
       IN  /\ credEntries' = [credEntries EXCEPT ![callers[p].centry].cache = stored.map]
           /\ scopesEntries' = [scopesEntries EXCEPT ![p] =
                  NewScopesCacheEntry(credEntries[callers[p].centry].credential,
                                      callers[p].scopes)]
           /\ Goto(p, "loop", [sentry |-> stored.actual])
    /\ UNCHANGED <<now, inputs, issued, cache>>

\* -------------------------------------------------- scopesCacheEntry.getAccessToken

\* A mutant of MayClaim: a refresh is claimed even while one is in progress.
MayClaimAlways(refreshing) == TRUE

\* token_cache.go:128, if !c.refreshing.
MayClaim(refreshing) == ~refreshing

\* A mutant of LockAfterLoop: the refresher keeps the lock while it refreshes.
LockAfterLoopHeld(p, shouldRefresh) == IF shouldRefresh THEN p ELSE 0

\* token_cache.go:138, c.cond.L.Unlock() after the loop: the holder of the
\* lock (0 is none) when the caller goes on to return or to refresh.
LockAfterLoop(p, shouldRefresh) == 0

\* The critical section of getAccessToken, from c.cond.L.Lock() (or from the
\* re-locking of a woken c.cond.Wait()) through one pass of the for loop to
\* c.cond.L.Unlock() or to the next c.cond.Wait(), which releases the lock.
\* time.Now() reads t; the clock never runs backwards.
\*   fresh token cached: its string is returned;
\*   else no refresh in progress: the refresh is claimed and refreshAccessToken
\*     invokes c.credential.GetAccessToken(ctx, c.scopes);
\*   else: the caller waits on the condition variable.
Loop(p, t) ==
    /\ callers[p].pc = "loop"
    /\ scopesEntries[callers[p].sentry].L = 0
    /\ t >= now
    /\ now' = t
    /\ LET e == callers[p].sentry
           c == scopesEntries[e]
       IN  IF IsFresh(c.accessToken, t)
           THEN /\ scopesEntries' = [scopesEntries EXCEPT
                       ![e].L = LockAfterLoop(p, FALSE)]
                /\ Goto(p, "done",
                        [accessToken |-> c.accessToken,
                         result |-> [kind |-> "token", token |-> c.accessToken.Token]])
           ELSE IF MayClaim(c.refreshing)
           THEN /\ scopesEntries' = [scopesEntries EXCEPT
                       ![e].refreshing = TRUE,
                       ![e].L = LockAfterLoop(p, TRUE)]
                /\ Goto(p, "acquire", [shouldRefresh |-> TRUE, acquire |-> "running"])
           ELSE /\ UNCHANGED scopesEntries
                /\ Goto(p, "condWait", [waited |-> TRUE])
    /\ UNCHANGED <<inputs, issued, cache, credEntries>>

\* ----------------------------------------------- scopesCacheEntry.refreshAccessToken

\* The credential returns a new token that expires at expiresOn.
AcquireToken(p, expiresOn) ==
    /\ callers[p].pc = "acquire"
    /\ issued' = issued + 1
    /\ Goto(p, "deferred",
            [acquire |-> "token",
             accessToken |-> [Token |-> issued + 1, ExpiresOn |-> expiresOn]])
    /\ UNCHANGED <<now, inputs, cache, credEntries, scopesEntries>>

\* The credential returns an error: refreshAccessToken returns nil, err.
AcquireError(p) ==
    /\ callers[p].pc = "acquire"
    /\ Goto(p, "deferred", [acquire |-> "error"])
    /\ UNCHANGED <<now, inputs, issued, cache, credEntries, scopesEntries>>

\* The credential panics: the deferred function runs while the panic unwinds.
AcquirePanic(p) ==
    /\ callers[p].pc = "acquire"
    /\ Goto(p, "deferred", [acquire |-> "panic"])
    /\ UNCHANGED <<now, inputs, issued, cache, credEntries, scopesEntries>>

\* A mutant of RefreshingAfter: the flag is cleared only when the acquisition
\* brought no token.
RefreshingAfterOnFailure(acquire) == acquire = "token"

\* A mutant of RefreshingAfter: the flag is cleared on the return paths only,
\* not when the credential panicked.
RefreshingAfterUnlessPanic(acquire) == acquire = "panic"

\* token_cache.go:157, c.refreshing = false in the deferred function, which
\* runs on every exit path.
RefreshingAfter(acquire) == FALSE

\* A mutant of TokenAfter: a token once cached is never replaced.
TokenAfterKeepFirst(cached, accessToken) ==
    IF cached # NilToken THEN cached ELSE accessToken

\* A mutant of TokenAfter: the new token is never stored.
TokenAfterNever(cached, accessToken) == cached

\* A mutant of TokenAfter: the cached token is overwritten also by a nil result.
TokenAfterAlways(cached, accessToken) == accessToken

\* token_cache.go:159-161, the cached token after the deferred function.
TokenAfter(cached, accessToken) ==
    IF accessToken # NilToken THEN accessToken ELSE cached

\* A mutant of Broadcast: the waiters are not woken.
BroadcastOmitted(waiting) == {}

\* A mutant of Broadcast: Signal, which wakes one waiter only.
Signal(waiting) ==
    IF waiting = {} THEN {} ELSE {CHOOSE q \in waiting : TRUE}

\* c.cond.Broadcast(): every waiter is woken.
Broadcast(waiting) == waiting

\* A mutant of Returned: the refresher's error is dropped.
ReturnedSwallowed(acquire, accessToken) ==
    IF acquire = "panic" THEN [kind |-> "panic", token |-> 0]
    ELSE [kind |-> "token", token |-> accessToken.Token]

\* What getAccessToken hands back after refreshAccessToken (token_cache.go:141-147
\* and 167-172): the new token's string, the error, or the panic unwinding.
Returned(acquire, accessToken) ==
    IF acquire = "token" THEN [kind |-> "token", token |-> accessToken.Token]
    ELSE IF acquire = "error" THEN [kind |-> "refreshError", token |-> 0]
    ELSE [kind |-> "panic", token |-> 0]

\* The deferred function, one critical section (Lock, clear the flag, store a
\* non-nil token, Broadcast, Unlock), then the return of refreshAccessToken
\* and of getAccessToken.
Deferred(p) ==
    /\ callers[p].pc = "deferred"
    /\ scopesEntries[callers[p].sentry].L = 0
    /\ LET e == callers[p].sentry
           c == scopesEntries[e]
           woken == Broadcast(Waiters(e))
           \* on an error or a panic the local accessToken is still nil
           local == IF callers[p].acquire = "token"
                    THEN callers[p].accessToken ELSE NilToken
       IN  /\ scopesEntries' = [scopesEntries EXCEPT
                  ![e].refreshing = RefreshingAfter(callers[p].acquire),
                  ![e].accessToken = TokenAfter(c.accessToken, local),
                  ![e].L = 0]
           /\ callers' = [q \in Procs |->
                  IF q = p
                  THEN [callers[p] EXCEPT
                            !.pc = "done",
                            !.result = Returned(callers[p].acquire, callers[p].accessToken)]
                  ELSE IF q \in woken
                  THEN [callers[q] EXCEPT !.pc = "loop"]
                  ELSE callers[q]]
    /\ UNCHANGED <<now, inputs, issued, cache, credEntries>>

\* ------------------------------------------------------------- cancellation

\* A mutant of WaitAfterCancel: the cancellation releases a waiting caller,
\* which returns.
WaitAfterCancelAborts(pc) == IF pc = "condWait" THEN "done" ELSE pc

\* Where a caller stands once its context is cancelled: where it stood.  The
\* cache passes ctx on to the credential (token_cache.go:167) and never reads
\* it; c.cond.Wait() (136) takes no context.
WaitAfterCancel(pc) == pc

\* The context of caller p's call is cancelled while the call is under way.
Cancel(p) ==
    /\ callers[p].pc \notin {"idle", "done"}
    /\ ~callers[p].cancelled
    /\ Goto(p, WaitAfterCancel(callers[p].pc), [cancelled |-> TRUE])
    /\ UNCHANGED <<now, inputs, issued, cache, credEntries, scopesEntries>>

\* --------------------------------------------------------- specification

Next ==
    \/ \E p \in Procs : \E credential \in inputs.credentials :
          \E scopes \in inputs.scopes : GetAccessToken(p, credential, scopes)
    \/ \E p \in Procs : CredLoadOrStore(p)
    \/ \E p \in Procs : EnsureInitialized(p)
    \/ \E p \in Procs : CredMutexLock(p)
    \/ \E p \in Procs : \E ok \in BOOLEAN : InitReturn(p, ok)
    \/ \E p \in Procs : CredMutexUnlock(p)
    \/ \E p \in Procs : ScopesLoad(p)
    \/ \E p \in Procs : ScopesLoadOrStore(p)
    \/ \E p \in Procs : \E t \in inputs.times : Loop(p, t)
    \/ \E p \in Procs : \E expiresOn \in inputs.expiries : AcquireToken(p, expiresOn)
    \/ \E p \in Procs : AcquireError(p)
    \/ \E p \in Procs : AcquirePanic(p)
    \/ \E p \in Procs : Deferred(p)

Spec == Init /\ [][Next]_vars

\* The same program on the two credentials of InitKeys.
SpecKeys == InitKeys /\ [][Next]_vars

\* The same program on the scope lists of InitScopes.
SpecScopes == InitScopes /\ [][Next]_vars

\* The same program on the two scope lists of InitPairs.
SpecPairs == InitPairs /\ [][Next]_vars

\* The program with contexts that may be cancelled.
NextCancel ==
    \/ Next
    \/ \E p \in Procs : Cancel(p)

SpecCancel == InitStale /\ [][NextCancel]_vars

\* The same program on the scope lists of InitMerge.
SpecMerge == InitMerge /\ [][Next]_vars

\* Fair scheduling: a goroutine that can take a step eventually takes it; a
\* running Init and a running acquisition eventually end (by a return or, for
\* the acquisition, by a panic).  No call is required to start.
Fairness ==
    \A p \in Procs :
        /\ WF_vars(CredLoadOrStore(p))
        /\ WF_vars(EnsureInitialized(p))
        /\ WF_vars(CredMutexLock(p))
        /\ WF_vars(\E ok \in BOOLEAN : InitReturn(p, ok))
        /\ WF_vars(CredMutexUnlock(p))
        /\ WF_vars(ScopesLoad(p))
        /\ WF_vars(ScopesLoadOrStore(p))
        /\ WF_vars(\E t \in inputs.times : Loop(p, t))
        /\ WF_vars(\/ \E expiresOn \in inputs.expiries : AcquireToken(p, expiresOn)
                   \/ AcquireError(p)
                   \/ AcquirePanic(p))
        /\ WF_vars(Deferred(p))

\* The program on the inputs of InitStale under fair scheduling.
SpecFair == InitStale /\ [][Next]_vars /\ Fairness

\* ------------------------------------------------------ notions of the claims

\* The callers that have resolved scopes entry e.
CallersOf(e) == {p \in Procs : callers[p].sentry = e}

\* The callers between claiming the refresh of e and the end of its cleanup.
Refreshers(e) ==
    {p \in CallersOf(e) : callers[p].pc \in {"acquire", "deferred"}}

\* The callers that have invoked the credential's GetAccessToken for e.
Acquirers(e) == {p \in CallersOf(e) : callers[p].acquire # "none"}

\* Caller p's call has returned a token string.
ReturnedToken(p) == callers[p].pc = "done" /\ callers[p].result.kind = "token"

\* The token is still more than the buffer away from expiring at the latest
\* reading of the clock.
StillFresh(accessToken) == accessToken.ExpiresOn > now + Buffer

\* ------------------------------------------------------------------- C1

\* C1: for every scopes entry, at most one caller is between claiming the
\* refresh and finishing the cleanup of refreshAccessToken.
C1_SingleRefresher ==
    \A e \in Procs : Cardinality(Refreshers(e)) <= 1

\* A second caller waits on the condition variable while the first, having
\* claimed the refresh, is inside the credential's GetAccessToken.
C1_Witness ==
    \E p, q \in Procs :
        /\ callers[p].pc = "acquire"
        /\ callers[q].pc = "condWait"
        /\ callers[q].sentry = callers[p].sentry

\* ------------------------------------------------------------------- C2

\* No acquisition for e has returned an error or panicked.
NoFailure(e) == \A p \in CallersOf(e) : callers[p].acquire \notin {"error", "panic"}

\* The callers of e whose calls began while no token was cached: they were
\* all in flight together when the first token was stored.
Cold(e) == {p \in CallersOf(e) : callers[p].cold}

\* C2 as stated: callers that began concurrently with no token cached, every
\* acquisition succeeding, cause a single acquisition and all return its token.
C2_Original ==
    \A e \in Procs :
        NoFailure(e) =>
            /\ Cardinality(Acquirers(e) \cap Cold(e)) <= 1
            /\ \A p, q \in Cold(e) :
                  ReturnedToken(p) /\ ReturnedToken(q)
                      => callers[p].result.token = callers[q].result.token

\* C2 amended: when every acquisition for the entry succeeded and the tokens
\* acquired are still fresh (more than the buffer from expiry at the latest
\* clock reading), the acquisition was invoked at most once and every caller
\* that returned did so with that one token.
C2_SingleAcquisition ==
    \A e \in Procs :
        (/\ NoFailure(e)
         /\ \A p \in CallersOf(e) :
               callers[p].acquire = "token" => StillFresh(callers[p].accessToken))
        => /\ Cardinality(Acquirers(e)) <= 1
           /\ \A p \in CallersOf(e) : \A q \in Acquirers(e) :
                 ReturnedToken(p) =>
                    /\ callers[q].acquire = "token"
                    /\ callers[p].result.token = callers[q].accessToken.Token

\* Two callers began with no token cached; one acquired, the other waited for
\* it, and both have returned the same token.
C2_Witness ==
    \E p, q \in Procs :
        /\ p # q
        /\ callers[p].sentry = callers[q].sentry
        /\ callers[p].cold /\ callers[q].cold
        /\ callers[p].acquire = "token" /\ callers[q].acquire = "none"
        /\ callers[q].waited
        /\ ReturnedToken(p) /\ ReturnedToken(q)
        /\ callers[p].result.token = callers[q].result.token

\* ------------------------------------------------------------------- C3

\* Caller q leaves the critical section of getAccessToken in this step.
LeavesLoop(q) == callers[q].pc = "loop" /\ callers'[q].pc # "loop"

\* C3: when a call has returned token T and another call for the same entry
\* examines the entry while T is more than the buffer from expiry, that call
\* returns T's string, invokes no acquisition and leaves the entry unchanged.
C3_SecondCallServedFromCache ==
    [][\A p, q \in Procs :
          (/\ ReturnedToken(p)
           /\ callers[q].sentry = callers[p].sentry
           /\ LeavesLoop(q)
           /\ callers[p].accessToken.ExpiresOn > now' + Buffer)
          => /\ callers'[q].pc = "done"
             /\ callers'[q].result = callers[p].result
             /\ callers'[q].acquire = "none"
             /\ issued' = issued
             /\ scopesEntries' = scopesEntries]_vars

\* The first caller acquired a token and returned it; the second, having found
\* it fresh in the cache, returned the same string without acquiring.
C3_Witness ==
    \E p, q \in Procs :
        /\ p # q
        /\ callers[p].sentry = callers[q].sentry
        /\ ReturnedToken(p) /\ callers[p].acquire = "token"
        /\ ReturnedToken(q) /\ callers[q].acquire = "none"
        /\ ~callers[q].cold
        /\ callers[q].result = callers[p].result
        /\ StillFresh(callers[p].accessToken)

\* ------------------------------------------------------------------- C4

\* Caller p runs the deferred function in this step.
RunsDeferred(p) == callers[p].pc = "deferred" /\ callers'[p].pc = "done"

\* C4: from the claim of a refresh to the end of its cleanup the cached token
\* changes only when the refresher stores a token it acquired; the cleanup of
\* a failed acquisition leaves the cached token as it was and clears the flag.
C4_FailedRefreshKeepsToken ==
    [][/\ \A e \in Procs :
             (/\ scopesEntries[e].refreshing
              /\ scopesEntries'[e].accessToken # scopesEntries[e].accessToken)
             => \E p \in CallersOf(e) :
                   RunsDeferred(p) /\ callers[p].acquire = "token"
       /\ \A p \in Procs :
             (RunsDeferred(p) /\ callers[p].acquire = "error")
             => /\ scopesEntries'[callers[p].sentry].accessToken
                      = scopesEntries[callers[p].sentry].accessToken
                /\ ~scopesEntries'[callers[p].sentry].refreshing]_vars

\* A refresh has failed on an entry that held a token: the caller got the
\* error, the earlier token is still cached and the flag is clear.
C4_Witness ==
    \E p \in Procs :
        /\ callers[p].pc = "done"
        /\ callers[p].result.kind = "refreshError"
        /\ scopesEntries[callers[p].sentry].accessToken # NilToken
        /\ ~scopesEntries[callers[p].sentry].refreshing

\* ------------------------------------------------------------------- C5

\* C5: a call returns a refresh error exactly when the acquisition it invoked
\* itself returned an error; so the calls that returned a refresh error are as
\* many as the failed acquisitions whose refresher has returned, and a caller
\* that only waited never returns the error.
C5_ErrorOnlyToRefresher ==
    \A p \in Procs :
        callers[p].pc = "done" =>
            (callers[p].result.kind = "refreshError" <=> callers[p].acquire = "error")

\* A caller waited during a refresh that failed; the refresher returned the
\* error, and the woken waiter has claimed the next refresh.
C5_Witness ==
    \E p, q \in Procs :
        /\ callers[p].sentry = callers[q].sentry
        /\ callers[p].pc = "done" /\ callers[p].result.kind = "refreshError"
        /\ callers[q].waited
        /\ callers[q].pc = "acquire"

\* ------------------------------------------------------------------- C6

\* The callers that have invoked Init of the credential with cache key k.
InitInvokers(k) ==
    {p \in Procs : callers[p].credential = k /\ callers[p].init # "none"}

\* C6 as stated: Init is invoked at most once for a credential cache key.
C6_Original ==
    \A k \in inputs.credentials : Cardinality(InitInvokers(k)) <= 1

\* C6 amended: for a credential cache key, Init is never running in two
\* callers at once and returns success at most once, however the first calls
\* race; every further invocation follows one that returned an error.
C6_InitSucceedsOnce ==
    \A k \in inputs.credentials :
        Cardinality({p \in InitInvokers(k) : callers[p].init # "error"}) <= 1

\* Two callers raced on the uninitialized entry: both read credInit as 0, one
\* ran Init with success, the other found the flag set under the mutex.
C6_Witness ==
    \E p, q \in Procs :
        /\ callers[p].centry = callers[q].centry
        /\ callers[p].init = "done"
        /\ callers[q].init = "none"
        /\ callers[q].pc = "scopesLoad"

\* ------------------------------------------------------------------- C7

\* C7: a failed Init leaves credInit 0, and the deferred Unlock that follows
\* frees the mutex and returns the error to the caller; that call invokes no
\* acquisition and neither resolves nor creates a scopes entry; and a caller
\* that then takes the mutex of the still uninitialized entry invokes Init
\* again.
C7_InitFailureNotPermanent ==
    [][\A p \in Procs :
          /\ (callers[p].pc = "Init" /\ callers'[p].init = "error")
             => /\ callers'[p].pc = "credMutexUnlock"
                /\ credEntries'[callers[p].centry].credInit = 0
                /\ credEntries'[callers[p].centry].cache
                      = credEntries[callers[p].centry].cache
                /\ scopesEntries' = scopesEntries
          /\ (/\ callers[p].pc = "credMutexUnlock"
              /\ callers[p].init = "error"
              /\ callers'[p].pc # "credMutexUnlock")
             => /\ callers'[p].pc = "done"
                /\ callers'[p].result = [kind |-> "initError", token |-> 0]
                /\ credEntries'[callers[p].centry].credInit = 0
                /\ credEntries'[callers[p].centry].credMutex = 0
                /\ credEntries'[callers[p].centry].cache
                      = credEntries[callers[p].centry].cache
                /\ scopesEntries' = scopesEntries
          /\ callers[p].result.kind = "initError"
             => /\ callers'[p] = callers[p]
                /\ callers[p].acquire = "none"
                /\ callers[p].sentry = NoEntry
                /\ scopesEntries[p] = NewScopesCacheEntry("", <<>>)
          /\ (/\ callers[p].pc = "credMutexLock"
              /\ callers'[p].pc # "credMutexLock"
              /\ credEntries[callers[p].centry].credInit = 0)
             => callers'[p].pc = "Init"]_vars

\* One caller's Init failed and it returned the error; a later caller ran Init
\* again with success and has returned a token.
C7_Witness ==
    \E p, q \in Procs :
        /\ callers[p].centry = callers[q].centry
        /\ callers[p].result.kind = "initError"
        /\ callers[q].init = "done"
        /\ ReturnedToken(q)

\* ------------------------------------------------------------------- C8

\* C8: a caller that finds a cached token expiring one minute past the buffer
\* returns it without refreshing; one that finds a cached token expiring at
\* the buffer, or one minute short of it, with no refresh in progress, claims
\* the refresh and invokes the acquisition.
C8_FreshnessBoundary ==
    [][\A p \in Procs :
          LeavesLoop(p) =>
             LET c == scopesEntries[callers[p].sentry]
             IN  /\ (c.accessToken # NilToken
                       /\ c.accessToken.ExpiresOn = now' + Buffer + 1)
                    => /\ callers'[p].pc = "done"
                       /\ callers'[p].result =
                              [kind |-> "token", token |-> c.accessToken.Token]
                       /\ callers'[p].acquire = "none"
                       /\ scopesEntries' = scopesEntries
                 /\ (c.accessToken # NilToken
                       /\ c.accessToken.ExpiresOn
                              \in {now' + Buffer - 1, now' + Buffer}
                       /\ ~c.refreshing)
                    => /\ callers'[p].pc = "acquire"
                       /\ callers'[p].acquire = "running"
                       /\ scopesEntries'[callers[p].sentry].refreshing]_vars

\* A caller has been served from the cache a token that expires exactly one
\* minute past the buffer.
C8_Witness ==
    \E p \in Procs :
        /\ ReturnedToken(p)
        /\ callers[p].acquire = "none"
        /\ callers[p].accessToken.ExpiresOn = now + Buffer + 1

\* ------------------------------------------------------------------- C9

\* The lists s and t hold the same strings the same number of times.
IsPermutation(s, t) ==
    /\ Len(s) = Len(t)
    /\ \A i \in DOMAIN s :
          Cardinality({j \in DOMAIN s : s[j] = s[i]})
              = Cardinality({j \in DOMAIN t : t[j] = s[i]})

\* C9: scope lists that are permutations of one another have the same key;
\* when a call has returned token T, a call of the same credential with a
\* permutation of its scopes that examines its entry while T is more than the
\* buffer from expiry returns T's string without acquiring; and no call
\* changes the list its caller passed.
C9_PermutationsShareEntry ==
    [][/\ \A s, t \in inputs.scopes :
             IsPermutation(s, t) => getKeyForScopes(s).key = getKeyForScopes(t).key
       /\ \A p \in Procs : callers'[p].scopes = callers'[p].given
       /\ \A p, q \in Procs :
             (/\ ReturnedToken(p)
              /\ callers[q].credential = callers[p].credential
              /\ IsPermutation(callers[q].given, callers[p].given)
              /\ LeavesLoop(q)
              /\ callers[p].accessToken.ExpiresOn > now' + Buffer)
             => /\ callers'[q].pc = "done"
                /\ callers'[q].result = callers[p].result
                /\ callers'[q].acquire = "none"
                /\ callers'[q].sentry = callers[p].sentry
                /\ issued' = issued]_vars

\* One caller acquired a token for the scopes in one order; another, passing
\* them in the other order, has been served the same token from the cache.
C9_Witness ==
    \E p, q \in Procs :
        /\ callers[p].given # callers[q].given
        /\ IsPermutation(callers[p].given, callers[q].given)
        /\ ReturnedToken(p) /\ callers[p].acquire = "token"
        /\ ReturnedToken(q) /\ callers[q].acquire = "none"
        /\ callers[q].result = callers[p].result
        /\ callers[q].scopes = callers[q].given

\* ------------------------------------------------------------------ C10

\* C10: an entry's refreshing flag is set exactly while one of its callers is
\* between the claim and the end of the deferred cleanup, whether the
\* acquisition returned a token, returned an error or panicked; and no caller
\* is left waiting on an entry whose flag is clear.
C10_RefreshAlwaysCleanedUp ==
    \A e \in Procs :
        /\ scopesEntries[e].refreshing <=> Refreshers(e) # {}
        /\ Waiters(e) # {} => scopesEntries[e].refreshing

\* The credential panicked under one caller while another waited; the cleanup
\* cleared the flag and woke the waiter, which has claimed the next refresh.
C10_Witness ==
    \E p, q \in Procs :
        /\ callers[p].sentry = callers[q].sentry
        /\ callers[p].pc = "done" /\ callers[p].result.kind = "panic"
        /\ callers[q].waited
        /\ callers[q].pc = "acquire"

\* ------------------------------------------------------------------ C11

\* Caller p's call has ended as its own steps determine: with a token, with
\* the error of its own Init or acquisition, or by the panic of its own
\* acquisition.
Ended(p) ==
    /\ callers[p].pc = "done"
    /\ \/ callers[p].result.kind \in {"token", "initError", "refreshError"}
       \/ callers[p].acquire = "panic"

\* C11: under fair scheduling, every call that has started eventually ends,
\* whether the refreshes succeed, fail or return stale tokens; in particular
\* no caller stays in the wait on the condition variable for ever.  A call
\* that has ended stays so and the callers are finitely many: from some point
\* on every caller has either not called or ended.
C11_EveryCallReturns ==
    <>[](\A p \in Procs : callers[p].pc = "idle" \/ Ended(p))

\* A caller waited through a refresh that brought a stale token, was woken,
\* refreshed in its turn and has returned.
C11_Witness ==
    \E p, q \in Procs :
        /\ callers[p].sentry = callers[q].sentry
        /\ callers[p].acquire = "token" /\ callers[p].pc = "done"
        /\ ~IsFresh(callers[p].accessToken, now)
        /\ callers[q].waited
        /\ callers[q].acquire # "none"
        /\ callers[q].pc = "done"

\* ------------------------------------------------------------------ C12

\* Every key of the sync.Map m is a key of n with the same value.
Keeps(m, n) == \A k \in DOMAIN m : k \in DOMAIN n /\ n[k] = m[k]

\* C12: each store holds one entry per key.  No step removes a key from the
\* credential store or from a scopes store, or changes the entry registered
\* for it; every caller that has resolved a credential entry holds the one
\* registered for its credential's key, and every caller that has resolved a
\* scopes entry holds the one registered for its scope key in that credential
\* entry, so callers with the same key hold the same entry.
C12_OneEntryPerKey ==
    [][/\ Keeps(cache, cache')
       /\ \A e \in Procs : Keeps(credEntries[e].cache, credEntries'[e].cache)
       /\ \A p \in Procs :
             /\ callers'[p].centry # NoEntry
                => Load(cache', callers'[p].credential)
                      = [value |-> callers'[p].centry, ok |-> TRUE]
             /\ callers'[p].sentry # NoEntry
                => Load(credEntries'[callers'[p].centry].cache,
                        getKeyForScopes(callers'[p].given).key)
                      = [value |-> callers'[p].sentry, ok |-> TRUE]]_vars

\* Two first calls for the same credential raced: both missed in Load, the
\* LoadOrStore of one returned the credential entry the other had stored, and
\* the same happened again on the scopes store.
C12_Witness ==
    \E p, q \in Procs :
        /\ p # q
        /\ credEntries[q].credential = callers[p].credential
        /\ callers[q].centry = p /\ callers[p].centry = p
        /\ scopesEntries[q].credential = callers[p].credential
        /\ callers[q].sentry = p /\ callers[p].sentry = p

\* ------------------------------------------------------------------ C13

\* Callers p and q ask for the same (credential, scope-set) pair.
SamePair(p, q) ==
    /\ callers[p].credential = callers[q].credential
    /\ IsPermutation(callers[p].given, callers[q].given)

\* The refresh of some pair other than q's is in progress.
OtherRefresh(q) == \E p \in Procs : callers[p].pc = "acquire" /\ ~SamePair(p, q)

\* C13: while the refresh of another pair is in progress, a caller past the
\* initialization of its credential is never held up by it: it can take its
\* next step at once; examining an entry with no refresh of its own in
\* progress it returns the cached token or claims the refresh; and it waits on
\* the condition variable only for a refresher of its own pair.
C13_PairsIndependent ==
    \A q \in Procs :
        OtherRefresh(q) =>
            /\ callers[q].pc = "scopesLoad" => ENABLED ScopesLoad(q)
            /\ callers[q].pc = "scopesLoadOrStore" => ENABLED ScopesLoadOrStore(q)
            /\ callers[q].pc = "loop" => ENABLED (\E t \in inputs.times : Loop(q, t))
            /\ (callers[q].pc = "loop" /\ ~scopesEntries[callers[q].sentry].refreshing)
               => ENABLED (/\ \E t \in inputs.times : Loop(q, t)
                           /\ callers'[q].pc \in {"done", "acquire"})
            /\ callers[q].pc = "deferred" => ENABLED Deferred(q)
            /\ callers[q].pc = "condWait"
               => \E p \in Refreshers(callers[q].sentry) : SamePair(p, q)

\* While one caller is still inside the acquisition for one scope, another
\* has claimed and performed the refresh for the other scope and returned.
C13_Witness ==
    \E p, q \in Procs :
        /\ callers[p].pc = "acquire"
        /\ callers[q].sentry # callers[p].sentry
        /\ callers[q].credential = callers[p].credential
        /\ ~SamePair(p, q)
        /\ callers[q].acquire = "token"
        /\ ReturnedToken(q)

\* ------------------------------------------------------------------ C14

\* C14: a caller waiting on the condition variable, its context cancelled or
\* not, leaves the wait only in the step in which a refresher of its entry
\* runs the deferred cleanup, which clears the refreshing flag and broadcasts;
\* it then re-evaluates the loop, and it returns in no step taken from the
\* wait.
C14_CancelDoesNotReleaseWaiter ==
    [][\A q \in Procs :
          callers[q].pc = "condWait" =>
             \/ callers'[q].pc = "condWait"
             \/ /\ callers'[q].pc = "loop"
                /\ scopesEntries[callers[q].sentry].refreshing
                /\ ~scopesEntries'[callers[q].sentry].refreshing
                /\ \E p \in CallersOf(callers[q].sentry) : RunsDeferred(p)]_vars

\* A caller is waiting with its context cancelled while the refresher is
\* still inside the acquisition.
C14_Witness ==
    \E p, q \in Procs :
        /\ callers[q].pc = "condWait"
        /\ callers[q].cancelled
        /\ callers[p].pc = "acquire"
        /\ callers[p].sentry = callers[q].sentry

\* ------------------------------------------------------------------ C15

\* Caller p's call returns a token string in this step.
ReturnsToken(p) ==
    /\ callers[p].pc # "done"
    /\ callers'[p].pc = "done"
    /\ callers'[p].result.kind = "token"

\* C15 as stated: a token string is returned only while its token is more
\* than the buffer from expiry at the clock reading of the return, both when
\* served from the cache and when returned by the caller that refreshed.
C15_Original ==
    [][\A p \in Procs :
          ReturnsToken(p) =>
             /\ callers'[p].result.token = callers'[p].accessToken.Token
             /\ IsFresh(callers'[p].accessToken, now')]_vars

\* ------------------------------------------------------------------ C16

\* The callers whose refresh of e acquired a token and has run its cleanup.
Refreshed(e) ==
    {p \in CallersOf(e) : callers[p].acquire = "token" /\ callers[p].pc = "done"}

\* C16: the cached token of an entry is absent exactly while no refresh of
\* that entry has completed with a token, and otherwise it is, whole, the
\* token of the latest such refresh of that entry (tokens are numbered in the
\* order of their issue).  The cached token being determined by the set of
\* completed refreshes, it changes in the cleanup of a successful refresh of
\* that entry and in no other step.
C16_CachedTokenIsLatestRefresh ==
    \A e \in Procs :
        IF Refreshed(e) = {}
        THEN scopesEntries[e].accessToken = NilToken
        ELSE \E p \in Refreshed(e) :
                /\ scopesEntries[e].accessToken = callers[p].accessToken
                /\ \A q \in Refreshed(e) :
                      callers[q].accessToken.Token <= callers[p].accessToken.Token

\* Two refreshes of one entry have completed with a token, the first one's
\* stale on arrival; the entry holds the second.
C16_Witness ==
    \E p, q \in Procs : \E e \in Procs :
        /\ p \in Refreshed(e) /\ q \in Refreshed(e)
        /\ callers[p].accessToken.Token < callers[q].accessToken.Token
        /\ scopesEntries[e].accessToken = callers[q].accessToken

\* ------------------------------------------------------------------ C17

\* C17: while a caller is inside the credential's acquisition its entry's
\* lock is free and the refreshing flag is set, so that another caller of the
\* entry arriving at the loop can take the lock at once, and doing so it goes
\* to wait on the condition variable.
C17_NoLockDuringAcquisition ==
    \A p \in Procs :
        callers[p].pc = "acquire" =>
            /\ scopesEntries[callers[p].sentry].L = 0
            /\ scopesEntries[callers[p].sentry].refreshing
            /\ \A q \in CallersOf(callers[p].sentry) :
                  callers[q].pc = "loop" =>
                     /\ ENABLED (\E t \in inputs.times : Loop(q, t))
                     /\ ~ENABLED (/\ \E t \in inputs.times : Loop(q, t)
                                  /\ callers'[q].pc # "condWait")

\* One caller is inside the acquisition, the entry's lock free; a second has
\* taken the lock meanwhile, seen the flag and waits on the condition variable.
C17_Witness ==
    \E p, q \in Procs :
        /\ callers[p].pc = "acquire"
        /\ scopesEntries[callers[p].sentry].L = 0
        /\ scopesEntries[callers[p].sentry].refreshing
        /\ callers[q].sentry = callers[p].sentry
        /\ callers[q].pc = "condWait"
        /\ callers[q].acquire = "none"

\* ------------------------------------------------------------------ C18

\* The callers of credential entry c at or past getEntryFor(scopes).
PastInit(c) ==
    {p \in Procs :
        /\ callers[p].centry = c
        /\ \/ callers[p].pc \in {"scopesLoad", "scopesLoadOrStore", "loop",
                                 "condWait", "acquire", "deferred"}
           \/ callers[p].sentry # NoEntry
           \/ callers[p].acquire # "none"
           \/ ReturnedToken(p)}

\* The callers whose invocation of Init for credential entry c has state s.
InitOf(c, s) == {p \in Procs : callers[p].centry = c /\ callers[p].init = s}

\* C18: for every credential entry, a caller is at or past the scopes store
\* only when an Init of that entry has returned success and credInit is 1;
\* once an Init has returned success credInit is 1 for good and no Init is
\* running or has succeeded a second time; Init runs in one caller at a time,
\* with the mutex held, and a caller that arrives meanwhile cannot take the
\* mutex.
C18_InitPrecedesTokens ==
    \A c \in Procs :
        /\ PastInit(c) # {}
           => credEntries[c].credInit = 1 /\ InitOf(c, "done") # {}
        /\ InitOf(c, "done") # {}
           => /\ credEntries[c].credInit = 1
              /\ Cardinality(InitOf(c, "done")) = 1
              /\ InitOf(c, "running") = {}
        /\ credEntries[c].credInit = 1 => InitOf(c, "done") # {}
        /\ \A p \in InitOf(c, "running") :
              /\ InitOf(c, "running") = {p}
              /\ callers[p].pc = "Init"
              /\ credEntries[c].credMutex = p
              /\ \A q \in Procs :
                    (callers[q].centry = c /\ callers[q].pc = "credMutexLock")
                    => ~ENABLED CredMutexLock(q)

\* A caller has arrived while another caller's Init is running and is held at
\* the mutex.
C18_Witness ==
    \E p, q \in Procs :
        /\ callers[p].pc = "Init"
        /\ callers[q].centry = callers[p].centry
        /\ callers[q].pc = "credMutexLock"
        /\ credEntries[callers[p].centry].credMutex = p

\* ------------------------------------------------------------------ C19

\* C19: with a clock that never runs backwards, an entry whose refreshing flag
\* is set holds no token or one that is not more than the buffer from expiry
\* at the latest reading of the clock; and an entry that holds no fresh token
\* comes to hold one only in a step that clears its refreshing flag.
C19_NoRefreshWhileFresh ==
    [][\A e \in Procs :
          /\ scopesEntries[e].refreshing
             => ~StillFresh(scopesEntries[e].accessToken)
          /\ scopesEntries'[e].refreshing
             => ~(scopesEntries'[e].accessToken.ExpiresOn > now' + Buffer)
          /\ (/\ ~StillFresh(scopesEntries[e].accessToken)
              /\ scopesEntries'[e].accessToken.ExpiresOn > now' + Buffer)
             => scopesEntries[e].refreshing /\ ~scopesEntries'[e].refreshing]_vars

\* A cached token that was fresh at time 0 has gone stale with the clock, and
\* a refresh of its entry is in progress.
C19_Witness ==
    \E e \in Procs :
        /\ scopesEntries[e].refreshing
        /\ scopesEntries[e].accessToken # NilToken
        /\ scopesEntries[e].accessToken.ExpiresOn > Buffer
        /\ ~StillFresh(scopesEntries[e].accessToken)

\* ------------------------------------------------------------------ C20

\* The scope strings compared: "", "a", "b" and "a b".
ScopeStrings == {<<>>, ScopeA, ScopeB, ScopeAB}

\* The scope lists of at most MaxScopes of these strings.
ScopeLists == UNION {[1..n -> ScopeStrings] : n \in 0..MaxScopes}

\* Every scope of the list is a non-empty string without a space.
SpaceFree(scopes) ==
    \A i \in DOMAIN scopes :
        /\ scopes[i] # <<>>
        /\ \A j \in DOMAIN scopes[i] : scopes[i][j] # Separator[1]

\* The scope list for which the token held by caller p's entry was acquired:
\* the refresher passes the list kept in the entry, c.scopes.
AcquiredFor(p) == scopesEntries[callers[p].sentry].scopes

\* C20 as stated: callers of one credential resolve the same scopes entry only
\* if their scope lists are permutations of one another, and a token is
\* returned only to a caller whose scope list is a permutation of the list it
\* was acquired for.
C20_Original ==
    \A p, q \in Procs :
        /\ (/\ callers[p].sentry # NoEntry
            /\ callers[p].credential = callers[q].credential
            /\ callers[p].sentry = callers[q].sentry)
           => IsPermutation(callers[p].given, callers[q].given)
        /\ ReturnedToken(p) => IsPermutation(AcquiredFor(p), callers[p].given)

\* On the scope lists compared, lists of space-free scopes have the same key
\* only if they are permutations of one another.
SpaceFreeKeysDistinct ==
    \A s, t \in ScopeLists :
        (/\ SpaceFree(s) /\ SpaceFree(t)
         /\ getKeyForScopes(s).key = getKeyForScopes(t).key)
        => IsPermutation(s, t)

\* C20 amended: callers of one credential that have resolved their scopes
\* entries hold the same entry exactly when their lists have the same key (the
\* sorted list joined with single spaces); a token is returned only to a
\* caller whose list has the key of the list it was acquired for; and lists of
\* non-empty scopes without spaces have the same key only if they are
\* permutations of one another.
C20_SameEntryIffSameKey ==
    /\ SpaceFreeKeysDistinct
    /\ \A p \in Procs :
          ReturnedToken(p)
          => getKeyForScopes(AcquiredFor(p)).key
                = getKeyForScopes(callers[p].given).key
    /\ \A p, q \in Procs :
          (/\ p < q
           /\ callers[p].sentry # NoEntry /\ callers[q].sentry # NoEntry
           /\ callers[p].credential = callers[q].credential)
          => (callers[p].sentry = callers[q].sentry
                <=> getKeyForScopes(callers[p].given).key
                       = getKeyForScopes(callers[q].given).key)

\* The caller asking for the scopes "a" and "b" has been served from the cache
\* the token that another caller acquired for the single scope "a b"; a caller
\* asking for "b" alone would have had an entry of its own.
C20_Witness ==
    \E p, q \in Procs :
        /\ callers[p].given = <<ScopeAB>>
        /\ callers[q].given = <<ScopeA, ScopeB>>
        /\ callers[p].acquire = "token" /\ ReturnedToken(p)
        /\ callers[q].acquire = "none" /\ ReturnedToken(q)
        /\ callers[q].result = callers[p].result
        /\ AcquiredFor(q) = <<ScopeAB>>

====
